---- MODULE Spec2Model ----
(***************************************************************************)
(* MarketDashboardApp: the batched, retrying downloader download_batched   *)
(* of utils/data_utils.py and its caller fetch_returns (specification      *)
(* Spec), the returns table of fetch_returns on a table of close prices   *)
(* (specification SpecReturns), the breadth percentages of                 *)
(* calculate_sma_percentages (specification SpecSma) and the trading-day   *)
(* ordinals, mean returns and seasonal curve of pages/2_Seasonality.py     *)
(* (specification SpecSeas), its half-month grouping (specification        *)
(* SpecHalf), the holdings sheet of fetch_holdings (specification          *)
(* SpecHold), the cache of download_batched (specification SpecCache) and  *)
(* download_batched run to completion (specification SpecTerminates).      *)
(*                                                                         *)
(* Ticker symbols are the naturals 1..; a provider frame is the list of    *)
(* its (top-level) columns and the number of rows of its date index.       *)
(* The calls to yf.download and to time.sleep are recorded, in order, in   *)
(* the history variable io.                                                *)
(***************************************************************************)
EXTENDS Integers, Sequences, FiniteSets, TLC

\* ---------------------------------------------------------------- bounds
MaxSymbols == 99         \* largest number of distinct symbols requested
MaxRows    == 1          \* largest number of rows of a provider frame

\* ------------------------------------------------------ program constants
BatchSize         == 50  \* range(0, len(tickers), 50), tickers[i:i + 50]
CooldownSecs      == 1   \* time.sleep(1)
DefaultMaxRetries == 3   \* max_retries=3
DefaultSleepBase  == 2   \* sleep_base=2
RetryLimitMin     == 0   \* slider("Max Retry Attempts", 0, 5, 3)
RetryLimitMax     == 5
SleepDelayMin     == 1   \* slider("Sleep Backoff Base (seconds)", 1, 10, 2)
SleepDelayMax     == 10

VARIABLES
    caller,         \* "direct": a page calls download_batched; "fetch_returns"
    fr_tickers,     \* fetch_returns: argument tickers
    benchmark,      \* fetch_returns: argument benchmark
    tickers_arg,    \* download_batched: argument tickers
    max_retries,    \* download_batched: argument max_retries
    sleep_base,     \* download_batched: argument sleep_base
    pc,             \* position in the code
    tickers,        \* download_batched: local tickers after line 120
    i,              \* loop variable of the for loop (0-based start of the batch)
    batch,          \* tickers[i:i + 50]
    retry_count,
    success,
    all_batches,
    failed_tickers,
    combined,       \* the frame download_batched returns
    returned,       \* download_batched has returned (combined, failed_tickers)
    close_prices,   \* fetch_returns: close_prices after dropna(axis=1)
    full_df,        \* fetch_returns: the Ticker column of the returned table
    exc,            \* the exception that left the call, "none" if none
    io,             \* history: provider calls and sleeps, in order
    reqs,           \* history: the pairs <<i, batch>> passed to yf.download
    \* fetch_returns on a table of close prices, lines 63-82
    ret_pc,         \* position in lines 63-82
    ret_price_data, \* the Close level of price_data
    ret_benchmark,  \* argument benchmark
    ret_close,      \* close_prices after dropna(axis=1)
    ret_df,         \* returns_df
    ret_full,       \* full_df
    ret_exc,        \* the exception that left fetch_returns, "none" if none
    \* calculate_sma_percentages, lines 84-94, on price_data and on a second
    \* table (twin_) that is price_data up to some date
    sma_pc,         \* position in lines 84-94
    sma_arg,        \* argument price_data
    sma_start_date, \* argument start_date
    sma_price_data, \* price_data after line 85
    sma_n,          \* number of dates of price_data.index the loop has taken
    sma_results,    \* results, one entry for each date taken
    sma_data,       \* the returned sma_data
    twin_arg,
    twin_price_data,
    twin_results,
    twin_data,
    \* the seasonality page, lines 22-32
    seas_pc,        \* position in lines 22-32
    seas_df,        \* df, by column
    seas_avg,       \* avg_returns
    seas_std,       \* std_deviation
    seas_seasonality,
    seas_upper,     \* upper_band
    seas_lower,     \* lower_band
    \* the seasonality page, lines 77-89
    half_pc,        \* position in lines 77-89
    half_df,        \* df, by column
    half_sig,       \* significance_levels
    half_adj,       \* adjusted_significance_levels
    \* fetch_holdings, lines 8-41
    hold_pc,        \* position in lines 8-41
    hold_raw,       \* raw, a list of rows of cells
    hold_reads,     \* history: the number of calls of pd.read_excel
    hold_i,         \* loop variable of the header scan
    hold_header_row_idx,    \* -1 for None
    hold_data,      \* data, its columns and its rows
    hold_df,        \* the returned df
    hold_exc,       \* the exception that left fetch_holdings, "none" if none
    \* st.cache_data around download_batched, lines 102-115
    cache_store,    \* the cached results, by the arguments of the call
    cache_log       \* history: the calls, their results and their provider calls

vars == <<caller, fr_tickers, benchmark, tickers_arg, max_retries, sleep_base,
          pc, tickers, i, batch, retry_count, success, all_batches,
          failed_tickers, combined, returned, close_prices, full_df, exc, io,
          reqs,
          ret_pc, ret_price_data, ret_benchmark, ret_close, ret_df, ret_full,
          ret_exc,
          sma_pc, sma_arg, sma_start_date, sma_price_data, sma_n, sma_results,
          sma_data, twin_arg, twin_price_data, twin_results, twin_data,
          seas_pc, seas_df, seas_avg, seas_std, seas_seasonality, seas_upper,
          seas_lower,
          half_pc, half_df, half_sig, half_adj,
          hold_pc, hold_raw, hold_reads, hold_i, hold_header_row_idx, hold_data, hold_df, hold_exc,
          cache_store, cache_log>>

\* the variables of the download pipeline
pipeVars == <<caller, fr_tickers, benchmark, tickers_arg, max_retries,
              sleep_base, pc, tickers, i, batch, retry_count, success,
              all_batches, failed_tickers, combined, returned, close_prices,
              full_df, exc, io, reqs>>

\* the variables of the returns table
retVars == <<ret_pc, ret_price_data, ret_benchmark, ret_close, ret_df,
             ret_full, ret_exc>>

\* the variables of the breadth percentages
smaVars == <<sma_pc, sma_arg, sma_start_date, sma_price_data, sma_n,
             sma_results, sma_data, twin_arg, twin_price_data, twin_results,
             twin_data>>

\* the variables of the seasonality page
seasVars == <<seas_pc, seas_df, seas_avg, seas_std, seas_seasonality,
              seas_upper, seas_lower>>

\* std_deviation, seasonality and the two bands
seasCurves == <<seas_std, seas_seasonality, seas_upper, seas_lower>>

\* the variables of the half-month grouping
halfVars == <<half_pc, half_df, half_sig, half_adj>>

\* the variables of fetch_holdings
holdVars == <<hold_pc, hold_raw, hold_reads, hold_i, hold_header_row_idx, hold_data, hold_df, hold_exc>>

\* the variables of the cache of download_batched
cacheVars == <<cache_store, cache_log>>

\* the variables outside the download pipeline
engineVars == <<retVars, smaVars, seasVars, halfVars, holdVars, cacheVars>>

\* the variables outside the returns table
exceptRet == <<pipeVars, smaVars, seasVars, halfVars, holdVars, cacheVars>>

\* the variables outside the breadth percentages
exceptSma == <<pipeVars, retVars, seasVars, halfVars, holdVars, cacheVars>>

\* the variables outside the seasonality page
exceptSeas == <<pipeVars, retVars, smaVars, halfVars, holdVars, cacheVars>>

\* the variables outside the half-month grouping
exceptHalf == <<pipeVars, retVars, smaVars, seasVars, holdVars, cacheVars>>

\* the variables outside fetch_holdings
exceptHold == <<pipeVars, retVars, smaVars, seasVars, halfVars, cacheVars>>

\* the variables outside the cache of download_batched
exceptCache == <<pipeVars, retVars, smaVars, seasVars, halfVars, holdVars>>

\* ---------------------------------------------------------------- helpers
Range(s) == {s[k] : k \in 1..Len(s)}

MinOf(S) == CHOOSE x \in S : \A y \in S : x <= y

MaxOf(S) == CHOOSE x \in S : \A y \in S : x >= y

Lesser(a, b) == IF a <= b THEN a ELSE b

\* the elements of a set of numbers in ascending order
Ascending(S) ==
    IF S = {} THEN <<>>
    ELSE SelectSeq([k \in 1..MaxOf(S) |-> k], LAMBDA x : x \in S)

Reverse(s) == [k \in 1..Len(s) |-> s[Len(s) + 1 - k]]

\* mutant: list(xs), the duplicates are kept
ListOfSet_KeepsDuplicates(xs, desc) == IF desc THEN Reverse(xs) ELSE xs

\* list(set(xs)): the distinct elements of xs, in an order the language leaves
\* open.  The model draws the order from two permutations, ascending and
\* descending.
ListOfSet(xs, desc) ==
    IF desc THEN Reverse(Ascending(Range(xs))) ELSE Ascending(Range(xs))

\* mutant: xs[lo:lo + n + 1], one element too many
Slice_OneTooMany(xs, lo, n) == SubSeq(xs, lo + 1, Lesser(lo + n + 1, Len(xs)))

\* xs[lo:lo + n] of a Python list, lo 0-based
Slice(xs, lo, n) == SubSeq(xs, lo + 1, Lesser(lo + n, Len(xs)))

\* mutant: while not success and retry_count < max_retries
LoopCondition_Strict(s, rc, mr) == ~s /\ rc < mr

\* mutant: while retry_count <= max_retries
LoopCondition_IgnoresSuccess(s, rc, mr) == rc <= mr

\* mutant: one attempt more than max_retries + 1
LoopCondition_OneMore(s, rc, mr) == ~s /\ rc <= mr + 1

\* while not success and retry_count <= max_retries
LoopCondition(s, rc, mr) == ~s /\ rc <= mr

\* mutant: wait = sleep_base * (2 ** retry_count)
Wait_FromTwice(base, rc) == base * 2 ^ rc

\* wait = sleep_base * (2 ** (retry_count - 1))
Wait(base, rc) == base * 2 ^ (rc - 1)

\* what yf.download returns for a batch: one column group per requested
\* symbol over a date index of `rows` rows
Frame(cols, rows) == [cols |-> cols, rows |-> rows]

\* DataFrame.empty: some axis has length 0
IsEmpty(f) == f.rows = 0 \/ Len(f.cols) = 0

\* pd.DataFrame()
EmptyFrame == [cols |-> <<>>, rows |-> 0, nan |-> {}]

RECURSIVE ConcatCols(_)
ConcatCols(fs) == IF fs = <<>> THEN <<>>
                  ELSE Head(fs).cols \o ConcatCols(Tail(fs))

\* pd.concat(all_batches, axis=1): the columns side by side over the union of
\* the indexes (outer join); a column of a frame with fewer rows than the
\* union has missing values (nan)
Concat(fs) ==
    LET rows == MaxOf({fs[k].rows : k \in 1..Len(fs)})
    IN  [cols |-> ConcatCols(fs),
         rows |-> rows,
         nan  |-> UNION {Range(fs[k].cols) : k \in {j \in 1..Len(fs) : fs[j].rows < rows}}]

\* dropna(axis=1): the columns without a missing value, in order
DropNaCols(f) == SelectSeq(f.cols, LAMBDA c : c \notin f.nan)

CallEvent(at, res)   == [ev |-> "call", at |-> at, res |-> res, secs |-> 0]

SleepEvent(kind, at, secs) == [ev |-> kind, at |-> at, res |-> "", secs |-> secs]

\* ------------------------------------------------------------------- Init
\* the numbers of distinct symbols the model requests: none, one, a full
\* batch, and the largest (fetch_returns adds its benchmark to them)
SymbolCounts == {0, 1, BatchSize, MaxSymbols}

Upto(n) == [k \in 1..n |-> k]

\* the argument lists: n distinct symbols, without or with a repeated symbol
TickerLists == {Upto(n) : n \in SymbolCounts}
               \cup {Upto(n) \o <<1>> : n \in SymbolCounts \ {0}}

InitLocals ==
    /\ tickers = <<>>
    /\ i = 0
    /\ batch = <<>>
    /\ retry_count = 0
    /\ success = FALSE
    /\ all_batches = <<>>
    /\ failed_tickers = <<>>
    /\ combined = EmptyFrame
    /\ returned = FALSE
    /\ close_prices = EmptyFrame
    /\ full_df = {}
    /\ exc = "none"
    /\ io = <<>>
    /\ reqs = {}

\* a page calls download_batched(tickers, max_retries=retry_limit,
\* sleep_base=sleep_delay)
InitDirect ==
    /\ caller = "direct"
    /\ fr_tickers = <<>>
    /\ benchmark = 0
    /\ tickers_arg \in TickerLists
    /\ max_retries \in RetryLimitMin..RetryLimitMax
    /\ sleep_base \in {SleepDelayMin, SleepDelayMax}
    /\ pc = "enter"
    /\ InitLocals

\* a page calls fetch_returns(tickers, benchmark); the benchmark is one of the
\* tickers or a symbol of its own
InitFetchReturns ==
    /\ caller = "fetch_returns"
    /\ fr_tickers \in TickerLists
    /\ benchmark \in {1, Len(fr_tickers) + 1}
    /\ tickers_arg = <<>>
    /\ max_retries = DefaultMaxRetries
    /\ sleep_base = DefaultSleepBase
    /\ pc = "fr_enter"
    /\ InitLocals

\* pd.DataFrame(), as a table
EmptyTable == [index |-> <<>>, cols |-> <<>>, val |-> <<>>, nan |-> {}]

\* the returns table is not in use
RetIdle ==
    /\ ret_pc = "idle"
    /\ ret_price_data = EmptyTable
    /\ ret_benchmark = ""
    /\ ret_close = EmptyTable
    /\ ret_df = <<>>
    /\ ret_full = <<>>
    /\ ret_exc = "none"

\* the breadth percentages are not in use
SmaIdle ==
    /\ sma_pc = "idle"
    /\ sma_arg = EmptyTable
    /\ sma_start_date = 0
    /\ sma_price_data = EmptyTable
    /\ sma_n = 0
    /\ sma_results = <<>>
    /\ sma_data = <<>>
    /\ twin_arg = EmptyTable
    /\ twin_price_data = EmptyTable
    /\ twin_results = <<>>
    /\ twin_data = <<>>

\* the seasonality page is not in use
SeasIdle ==
    /\ seas_pc = "idle"
    /\ seas_df = [index |-> <<>>, Close |-> <<>>]
    /\ seas_avg = <<>>
    /\ seas_std = <<>>
    /\ seas_seasonality = <<>>
    /\ seas_upper = <<>>
    /\ seas_lower = <<>>

\* the half-month grouping not in use
HalfIdle ==
    /\ half_pc = "idle"
    /\ half_df = [index |-> <<>>, Returns |-> <<>>]
    /\ half_sig = <<>>
    /\ half_adj = <<>>

\* fetch_holdings not in use
HoldIdle ==
    /\ hold_pc = "idle"
    /\ hold_raw = <<>>
    /\ hold_reads = 0
    /\ hold_i = 0
    /\ hold_header_row_idx = 0 - 1
    /\ hold_data = [columns |-> <<>>, rows |-> <<>>]
    /\ hold_df = <<>>
    /\ hold_exc = "none"

\* the cache of download_batched not in use
CacheIdle ==
    /\ cache_store = <<>>
    /\ cache_log = <<>>

EnginesIdle == RetIdle /\ SmaIdle /\ SeasIdle /\ HalfIdle /\ HoldIdle /\ CacheIdle

Init == (InitDirect \/ InitFetchReturns) /\ EnginesIdle

\* ---------------------------------------------------------------- actions
\* fetch_returns, lines 53-61: tickers = list(set(tickers + [benchmark])) and
\* the call of download_batched with the default max_retries and sleep_base
FetchReturnsCall ==
    /\ pc = "fr_enter"
    /\ \E desc \in BOOLEAN :
          tickers_arg' = ListOfSet(fr_tickers \o <<benchmark>>, desc)
    /\ pc' = "enter"
    /\ UNCHANGED engineVars
    /\ UNCHANGED <<reqs, caller, fr_tickers, benchmark, max_retries, sleep_base,
                   tickers, i, batch, retry_count, success, all_batches,
                   failed_tickers, combined, returned, close_prices, full_df,
                   exc, io>>

\* download_batched, lines 118-120
Enter ==
    /\ pc = "enter"
    /\ all_batches' = <<>>
    /\ failed_tickers' = <<>>
    /\ \E desc \in BOOLEAN : tickers' = ListOfSet(tickers_arg, desc)
    /\ i' = 0
    /\ pc' = "for"
    /\ UNCHANGED engineVars
    /\ UNCHANGED <<reqs, caller, fr_tickers, benchmark, tickers_arg, max_retries,
                   sleep_base, batch, retry_count, success, combined, returned,
                   close_prices, full_df, exc, io>>

\* mutant: retry_count is not set back to 0 for the next batch
ForBatch_KeepsRetryCount ==
    /\ pc = "for"
    /\ i < Len(tickers)
    /\ batch' = Slice(tickers, i, BatchSize)
    /\ success' = FALSE
    /\ pc' = "while"
    /\ UNCHANGED engineVars
    /\ UNCHANGED <<reqs, caller, fr_tickers, benchmark, tickers_arg, max_retries,
                   sleep_base, tickers, i, retry_count, all_batches,
                   failed_tickers, combined, returned, close_prices, full_df,
                   exc, io>>

\* lines 122-125: the next batch
ForBatch ==
    /\ pc = "for"
    /\ i < Len(tickers)
    /\ batch' = Slice(tickers, i, BatchSize)
    /\ retry_count' = 0
    /\ success' = FALSE
    /\ pc' = "while"
    /\ UNCHANGED engineVars
    /\ UNCHANGED <<reqs, caller, fr_tickers, benchmark, tickers_arg, max_retries,
                   sleep_base, tickers, i, all_batches, failed_tickers,
                   combined, returned, close_prices, full_df, exc, io>>

\* lines 126-143: an attempt on which yf.download returns a frame
DownloadReturns ==
    /\ pc = "while"
    /\ LoopCondition(success, retry_count, max_retries)
    /\ \E rows \in 0..MaxRows :
          LET data == Frame(batch, rows) IN
          /\ IF ~IsEmpty(data)
                THEN /\ all_batches' = Append(all_batches, data)
                     /\ UNCHANGED failed_tickers
                ELSE /\ failed_tickers' = failed_tickers \o batch
                     /\ UNCHANGED all_batches
          /\ io' = Append(io, CallEvent(i, IF IsEmpty(data) THEN "empty" ELSE "data"))
    /\ reqs' = reqs \cup {<<i, batch>>}
    /\ success' = TRUE
    /\ UNCHANGED engineVars
    /\ UNCHANGED <<caller, fr_tickers, benchmark, tickers_arg, max_retries,
                   sleep_base, pc, tickers, i, batch, retry_count, combined,
                   returned, close_prices, full_df, exc>>

\* mutant: no except clause, the provider's error leaves download_batched
DownloadRaises_Uncaught ==
    /\ pc = "while"
    /\ LoopCondition(success, retry_count, max_retries)
    /\ io' = Append(io, CallEvent(i, "raise"))
    /\ reqs' = reqs \cup {<<i, batch>>}
    /\ exc' = "ProviderError"
    /\ pc' = "raised"
    /\ UNCHANGED engineVars
    /\ UNCHANGED <<caller, fr_tickers, benchmark, tickers_arg, max_retries,
                   sleep_base, tickers, i, batch, retry_count, success,
                   all_batches, failed_tickers, combined, returned,
                   close_prices, full_df>>

\* lines 126-138, 144-148: an attempt on which yf.download raises
DownloadRaises ==
    /\ pc = "while"
    /\ LoopCondition(success, retry_count, max_retries)
    /\ retry_count' = retry_count + 1
    /\ io' = io \o <<CallEvent(i, "raise"),
                     SleepEvent("backoff", i, Wait(sleep_base, retry_count + 1))>>
    /\ reqs' = reqs \cup {<<i, batch>>}
    /\ UNCHANGED engineVars
    /\ UNCHANGED <<caller, fr_tickers, benchmark, tickers_arg, max_retries,
                   sleep_base, pc, tickers, i, batch, success, all_batches,
                   failed_tickers, combined, returned, close_prices, full_df,
                   exc>>

\* mutant: the cooldown is taken only after a batch that succeeded
Cooldown_OnSuccessOnly ==
    /\ pc = "while"
    /\ ~LoopCondition(success, retry_count, max_retries)
    /\ io' = IF success THEN Append(io, SleepEvent("cooldown", i, CooldownSecs))
                        ELSE io
    /\ i' = i + BatchSize
    /\ pc' = "for"
    /\ UNCHANGED engineVars
    /\ UNCHANGED <<reqs, caller, fr_tickers, benchmark, tickers_arg, max_retries,
                   sleep_base, tickers, batch, retry_count, success,
                   all_batches, failed_tickers, combined, returned,
                   close_prices, full_df, exc>>

\* line 149, after the while loop has ended: the cooldown, then the next i
Cooldown ==
    /\ pc = "while"
    /\ ~LoopCondition(success, retry_count, max_retries)
    /\ io' = Append(io, SleepEvent("cooldown", i, CooldownSecs))
    /\ i' = i + BatchSize
    /\ pc' = "for"
    /\ UNCHANGED engineVars
    /\ UNCHANGED <<reqs, caller, fr_tickers, benchmark, tickers_arg, max_retries,
                   sleep_base, tickers, batch, retry_count, success,
                   all_batches, failed_tickers, combined, returned,
                   close_prices, full_df, exc>>

\* lines 151-156, after the for loop has ended
Return ==
    /\ pc = "for"
    /\ i >= Len(tickers)
    /\ combined' = IF all_batches # <<>> THEN Concat(all_batches) ELSE EmptyFrame
    /\ returned' = TRUE
    /\ pc' = IF caller = "fetch_returns" THEN "fr_resume" ELSE "done"
    /\ UNCHANGED engineVars
    /\ UNCHANGED <<reqs, caller, fr_tickers, benchmark, tickers_arg, max_retries,
                   sleep_base, tickers, i, batch, retry_count, success,
                   all_batches, failed_tickers, close_prices, full_df, exc, io>>

\* fetch_returns, lines 63-82.  close_prices.index[-1] raises IndexError on an
\* empty index.  The rows of the returned table are the columns of
\* close_prices.
FetchReturnsResume ==
    /\ pc = "fr_resume"
    /\ LET cp == [cols |-> DropNaCols(combined), rows |-> combined.rows, nan |-> {}]
       IN  /\ close_prices' = cp
           /\ IF cp.rows = 0
                 THEN /\ exc' = "IndexError"
                      /\ pc' = "raised"
                      /\ UNCHANGED full_df
                 ELSE /\ full_df' = Range(cp.cols)
                      /\ pc' = "done"
                      /\ UNCHANGED exc
    /\ UNCHANGED engineVars
    /\ UNCHANGED <<reqs, caller, fr_tickers, benchmark, tickers_arg, max_retries,
                   sleep_base, tickers, i, batch, retry_count, success,
                   all_batches, failed_tickers, combined, returned, io>>

Next ==
    \/ FetchReturnsCall
    \/ Enter
    \/ ForBatch
    \/ DownloadReturns
    \/ DownloadRaises
    \/ Cooldown
    \/ Return
    \/ FetchReturnsResume

Spec == Init /\ [][Next]_vars

\* ------------------------------------------------- reading the histories
Entered == pc \notin {"fr_enter", "enter"}

\* the distinct symbols download_batched is asked for
Requested == Range(tickers_arg)

Ceil(n, d) == (n + d - 1) \div d

\* the values i takes for Cardinality(Requested) distinct symbols
BatchStarts ==
    {k * BatchSize : k \in 0..(Ceil(Cardinality(Requested), BatchSize) - 1)}

\* the batches met so far: those of BatchStarts and those of the history
Ats == BatchStarts \cup {io[k].at : k \in DOMAIN io}

Events(kind, b) == {k \in DOMAIN io : io[k].ev = kind /\ io[k].at = b}

Raises(b) == {k \in Events("call", b) : io[k].res = "raise"}

\* the batch at b is over: its cooldown was taken
Finished(b) == Events("cooldown", b) # {}

\* the batch at b is over and every attempt of it raised
Exhausted(b) == Finished(b) /\ Events("call", b) = Raises(b)

\* the symbols passed to the provider for the batch at b
BatchSyms(b) == UNION {Range(r[2]) : r \in {q \in reqs : q[1] = b}}

AppendedSyms == UNION {Range(all_batches[k].cols) : k \in DOMAIN all_batches}

\* C1: when download_batched returns, every symbol of a batch whose download
\* raised on all of its max_retries + 1 attempts is in failed_tickers, and the
\* batch has no column in the combined frame.
C1_ExhaustedBatchIsFailed ==
    returned =>
        \A b \in BatchStarts :
            (Exhausted(b) /\ Cardinality(Raises(b)) = max_retries + 1) =>
                /\ BatchSyms(b) \subseteq Range(failed_tickers)
                /\ BatchSyms(b) \cap Range(combined.cols) = {}

\* C2: when download_batched returns, every requested symbol that is not in
\* failed_tickers is a column of the combined frame.
C2_RequestedMinusFailedInCombined ==
    returned => (Requested \ Range(failed_tickers)) \subseteq Range(combined.cols)

\* C3: at every point, no symbol is both in failed_tickers and in a frame
\* appended to all_batches; on return failed_tickers and the combined frame's
\* columns are disjoint, and no failed symbol is a row of the returns table.
C3_FailedDisjointFromCombined ==
    /\ Range(failed_tickers) \cap AppendedSyms = {}
    /\ returned => Range(failed_tickers) \cap Range(combined.cols) = {}
    /\ Range(failed_tickers) \cap full_df = {}

C3_Witness ==
    /\ caller = "fetch_returns"
    /\ pc = "done"
    /\ failed_tickers # <<>>
    /\ full_df # {}
    /\ Len(tickers_arg) > BatchSize

\* C4: a batch is attempted at most max_retries + 1 times, and a batch all of
\* whose attempts raised was attempted exactly max_retries + 1 times before it
\* was given up.
C4_AttemptsPerBatch ==
    \A b \in Ats :
        LET calls == Events("call", b)
        IN  /\ Cardinality(calls) <= max_retries + 1
            /\ (Finished(b) /\ calls = Raises(b)) =>
                  Cardinality(calls) = max_retries + 1

C4_Witness ==
    /\ max_retries = RetryLimitMax
    /\ \E b \in BatchStarts :
          Exhausted(b) /\ Cardinality(Events("call", b)) = RetryLimitMax + 1

\* C5: the k-th attempt of a batch that raises is followed at once by a delay
\* of sleep_base * 2^(k-1) seconds, and no other backoff delay is taken.
C5_BackoffDoubles ==
    \A b \in Ats :
        LET raises == Raises(b)
            delays == Events("backoff", b)
        IN  /\ \A c \in raises :
                  LET k == Cardinality({c2 \in raises : c2 <= c})
                  IN  /\ c + 1 \in delays
                      /\ io[c + 1].secs = sleep_base * 2 ^ (k - 1)
            /\ \A j \in delays : j - 1 \in raises

C5_Witness ==
    /\ sleep_base = SleepDelayMax
    /\ \E b \in BatchStarts :
          /\ Cardinality(Raises(b)) >= 3
          /\ \E j \in Events("backoff", b) : io[j].secs = 4 * SleepDelayMax

\* C6: when an attempt for a batch returns a frame with no rows, every symbol
\* of the batch is in failed_tickers, no frame of the batch is in all_batches,
\* and that attempt is the last one for the batch.
C6_EmptyResultNotRetried ==
    \A b \in Ats :
        LET calls == Events("call", b)
        IN  (\E c \in calls : io[c].res = "empty") =>
                /\ \A c \in calls :
                      io[c].res = "empty" => \A c2 \in calls : c2 <= c
                /\ BatchSyms(b) \subseteq Range(failed_tickers)
                /\ BatchSyms(b) \cap AppendedSyms = {}

C6_Witness ==
    /\ returned
    /\ \E b \in BatchStarts :
          /\ \E c \in Events("call", b) : io[c].res = "empty"
          /\ Cardinality(Events("call", b)) <= max_retries
          /\ BatchSyms(b) # {}

\* C7: the local list tickers holds every requested symbol once; every batch
\* passed to the provider has at most 50 symbols, all of them requested and
\* none twice; two different batches share no symbol; and on return the
\* batches are ceil(n/50) in number and cover the requested symbols.
C7_BatchesPartitionSymbols ==
    LET requested == Requested
        parts == {<<r, Range(r[2])>> : r \in reqs}
    IN  /\ Entered => /\ Range(tickers) = requested
                      /\ Len(tickers) = Cardinality(requested)
        /\ \A p \in parts : /\ Len(p[1][2]) <= BatchSize
                            /\ Cardinality(p[2]) = Len(p[1][2])
                            /\ p[2] \subseteq requested
        /\ \A p1, p2 \in parts : p1 # p2 => p1[2] \cap p2[2] = {}
        /\ returned =>
              /\ Cardinality(reqs) = Ceil(Cardinality(requested), BatchSize)
              /\ UNION {p[2] : p \in parts} = requested

C7_Witness ==
    /\ returned
    /\ Len(tickers_arg) > Cardinality(Requested)
    /\ Cardinality(Requested) > BatchSize
    /\ Cardinality(reqs) = 2
    /\ \E r \in reqs : Len(r[2]) = BatchSize

\* C8: no exception leaves download_batched: an exception is seen only after
\* download_batched has returned; until it returns a next step exists; and on
\* return every batch has been attempted, also those after a batch all of
\* whose attempts raised.
C8_ProviderErrorNeverFatal ==
    /\ exc # "none" => returned
    /\ ~returned => ENABLED Next
    /\ returned => \A b \in BatchStarts : Events("call", b) # {}

C8_Witness ==
    /\ returned
    /\ exc = "none"
    /\ \E b1, b2 \in BatchStarts :
          b1 < b2 /\ Exhausted(b1) /\ Events("call", b2) # {}

\* C9: each batch has at most one cooldown pause, of 1 second, taken after
\* every attempt and backoff of that batch and before any attempt of a later
\* batch; on return every batch has had its pause, whatever its outcome, and
\* the pauses are as many as the batches.
C9_OneCooldownPerBatch ==
    LET starts == BatchStarts
    IN  /\ \A b \in Ats :
              LET pauses == Events("cooldown", b)
              IN  /\ Cardinality(pauses) <= 1
                  /\ \A j \in pauses :
                        /\ io[j].secs = 1
                        /\ \A k \in Events("call", b) \cup Events("backoff", b) :
                              k < j
        /\ \A b \in starts :
              LET pauses == Events("cooldown", b)
              IN  \A c \in DOMAIN io :
                      (io[c].ev = "call" /\ b < io[c].at) =>
                          \E j \in pauses : j < c
        /\ returned =>
              /\ \A b \in starts : Cardinality(Events("cooldown", b)) = 1
              /\ Cardinality({k \in DOMAIN io : io[k].ev = "cooldown"})
                    = Cardinality(starts)

C9_Witness ==
    /\ returned
    /\ \E b1, b2 \in BatchStarts :
          /\ b1 < b2
          /\ Exhausted(b1)
          /\ \E c \in Events("call", b2) : io[c].res = "data"
          /\ Finished(b2)

\* C10: when every batch returned no rows or failed, download_batched returns
\* an empty frame and fetch_returns completes without an exception.
C10_NoDataIsNotAnException ==
    (returned /\ all_batches = <<>>) => (combined = EmptyFrame /\ exc = "none")

\* ===================================================================
\* fetch_returns, lines 63-82, on a table of close prices.
\*
\* A table is its date index (day numbers, ascending), its columns (ticker
\* names), the prices val[column][row] and the set nan of the columns that
\* hold a missing value.  Returns are kept in hundredths of a percent.
\* ===================================================================
MaxPrice == 3            \* largest close price of a table

\* periods = {"1D": 1, "3D": 3, "5D": 5, "30D": 30, "1Y": 365}
Labels == <<"1D", "3D", "5D", "30D", "1Y">>

PeriodDays(label) ==
    CASE label = "1D"  -> 1
      [] label = "3D"  -> 3
      [] label = "5D"  -> 5
      [] label = "30D" -> 30
      [] label = "1Y"  -> 365

\* str.upper() on the ticker names of the model
Upper(t) ==
    CASE t = "spy" -> "SPY"
      [] t = "aaa" -> "AAA"
      [] t = "bbb" -> "BBB"
      [] OTHER     -> t

\* mutant: the benchmark is compared as it was passed
BenchmarkKey_AsPassed(b) == b

\* benchmark.upper()
BenchmarkKey(b) == Upper(b)

\* numpy's round: n/d to the nearest integer, a tie to the even one (d > 0)
RoundHalfEven(n, d) ==
    LET q == n \div d
        r == n - q * d
    IN  IF 2 * r < d THEN q
        ELSE IF 2 * r > d THEN q + 1
        ELSE IF q % 2 = 0 THEN q ELSE q + 1

\* ((last - first) / first * 100).round(2), in hundredths of a percent
PctReturn(first, last) == RoundHalfEven((last - first) * 10000, first)

\* mutant: the whole table, whatever the period
WindowRows_All(t, period_start) == DOMAIN t.index

\* close_prices[close_prices.index >= period_start]: the rows kept
WindowRows(t, period_start) ==
    {k \in DOMAIN t.index : t.index[k] >= period_start}

\* dropna(axis=1) on a table
DropNa(t) ==
    LET kept == SelectSeq(t.cols, LAMBDA c : c \notin t.nan)
    IN  [index |-> t.index,
         cols  |-> kept,
         val   |-> [c \in Range(kept) |-> t.val[c]],
         nan   |-> {}]

\* lines 71-76: the row of returns_df for column c
ReturnsRow(t, c) ==
    LET latest_date == t.index[Len(t.index)]
    IN  [Ticker |-> c,
         r |-> [label \in Range(Labels) |->
                  LET w == WindowRows(t, latest_date - PeriodDays(label))
                  IN  PctReturn(t.val[c][MinOf(w)], t.val[c][MaxOf(w)])]]

\* mutant: sort_values(by="1D", ascending=True)
SortValues1D_Ascending(rows) ==
    {s \in {[k \in DOMAIN rows |-> rows[p[k]]] : p \in Permutations(DOMAIN rows)} :
        \A k \in 1..(Len(rows) - 1) : s[k].r["1D"] <= s[k + 1].r["1D"]}

\* sort_values(by="1D", ascending=False): the orders the sort may leave the
\* rows in (the order of rows with equal keys is open)
SortValues1D(rows) ==
    {s \in {[k \in DOMAIN rows |-> rows[p[k]]] : p \in Permutations(DOMAIN rows)} :
        \A k \in 1..(Len(rows) - 1) : s[k].r["1D"] >= s[k + 1].r["1D"]}

\* ----------------------------------------------------------- the inputs
\* the date indexes: one row; two rows 1, 3, 30 and 366 days apart
IndexLists == {<<400>>, <<399, 400>>, <<397, 400>>, <<370, 400>>, <<34, 400>>}

\* the columns the provider returned (it names them in upper case)
ColumnLists == {<<"AAA", "SPY", "BBB">>, <<"AAA", "BBB">>}

\* the download pipeline is not in use
PipelineIdle ==
    /\ caller = "none"
    /\ fr_tickers = <<>>
    /\ benchmark = 0
    /\ tickers_arg = <<>>
    /\ max_retries = DefaultMaxRetries
    /\ sleep_base = DefaultSleepBase
    /\ pc = "idle"
    /\ InitLocals

\* fetch_returns has the close prices of price_data; the page passes the
\* benchmark in upper case, other callers in any case
RetInit ==
    /\ ret_pc = "start"
    /\ \/ ret_price_data = EmptyTable
       \/ \E ix \in IndexLists, cs \in ColumnLists :
             \E v \in [Range(cs) -> [DOMAIN ix -> 1..MaxPrice]],
                n \in {{}, {"SPY"}, {"AAA"}} :
                ret_price_data = [index |-> ix, cols |-> cs, val |-> v,
                                  nan |-> n \cap Range(cs)]
    /\ ret_benchmark \in {"SPY", "spy"}
    /\ ret_close = EmptyTable
    /\ ret_df = <<>>
    /\ ret_full = <<>>
    /\ ret_exc = "none"

InitReturns == PipelineIdle /\ RetInit /\ SmaIdle /\ SeasIdle /\ HalfIdle /\ HoldIdle /\ CacheIdle

\* ----------------------------------------------------------- the actions
\* lines 63-69: close_prices, and latest_date = close_prices.index[-1], which
\* raises IndexError on an empty index
RetNormalize ==
    /\ ret_pc = "start"
    /\ ret_close' = DropNa(ret_price_data)
    /\ IF Len(ret_price_data.index) = 0
          THEN ret_exc' = "IndexError" /\ ret_pc' = "raised"
          ELSE ret_pc' = "normalized" /\ UNCHANGED ret_exc
    /\ UNCHANGED <<ret_price_data, ret_benchmark, ret_df, ret_full>>
    /\ UNCHANGED exceptRet

\* lines 71-76: returns_df, one row for each column of close_prices
RetCompute ==
    /\ ret_pc = "normalized"
    /\ ret_df' = [k \in DOMAIN ret_close.cols |->
                    ReturnsRow(ret_close, ret_close.cols[k])]
    /\ ret_pc' = "computed"
    /\ UNCHANGED <<ret_price_data, ret_benchmark, ret_close, ret_full, ret_exc>>
    /\ UNCHANGED exceptRet

\* pd.concat([etf_row, others], ignore_index=True)
ConcatRows(etf_row, others) == etf_row \o others

\* mutant: the benchmark's row is looked up and must exist
RetOrder_RequiresBenchmark ==
    /\ ret_pc = "computed"
    /\ LET key     == BenchmarkKey(ret_benchmark)
           etf_row == SelectSeq(ret_df, LAMBDA row : row.Ticker = key)
           rest    == SelectSeq(ret_df, LAMBDA row : row.Ticker # key)
       IN  IF etf_row = <<>>
              THEN /\ ret_exc' = "KeyError"
                   /\ ret_pc' = "raised"
                   /\ UNCHANGED ret_full
              ELSE /\ \E others \in SortValues1D(rest) :
                         ret_full' = ConcatRows(etf_row, others)
                   /\ ret_pc' = "done"
                   /\ UNCHANGED ret_exc
    /\ UNCHANGED <<ret_price_data, ret_benchmark, ret_close, ret_df>>
    /\ UNCHANGED exceptRet

\* lines 78-82: the benchmark's row, then the other rows by falling 1D return
RetOrder ==
    /\ ret_pc = "computed"
    /\ LET key     == BenchmarkKey(ret_benchmark)
           etf_row == SelectSeq(ret_df, LAMBDA row : row.Ticker = key)
           rest    == SelectSeq(ret_df, LAMBDA row : row.Ticker # key)
       IN  \E others \in SortValues1D(rest) :
               ret_full' = ConcatRows(etf_row, others)
    /\ ret_pc' = "done"
    /\ UNCHANGED <<ret_price_data, ret_benchmark, ret_close, ret_df, ret_exc>>
    /\ UNCHANGED exceptRet

NextReturns ==
    \/ RetNormalize
    \/ RetCompute
    \/ RetOrder

SpecReturns == InitReturns /\ [][NextReturns]_vars

\* --------------------------------------------------- reading the table
\* the benchmark symbol, as the provider names it
BenchmarkSymbol == Upper(ret_benchmark)

RetComputed == ret_pc \in {"computed", "done"}

\* the first row of close_prices whose date is period_days before the latest
\* date or later
FirstRowOfPeriod(t, period_days) ==
    CHOOSE k \in DOMAIN t.index :
        /\ t.index[k] >= t.index[Len(t.index)] - period_days
        /\ \A j \in 1..(k - 1) : t.index[j] < t.index[Len(t.index)] - period_days

\* the positions of the output rows that are not the benchmark's
OtherRows == {k \in DOMAIN ret_full : ret_full[k].Ticker # BenchmarkSymbol}

\* C11: a cell of returns_df whose window (the rows with date >=
\* latest_date - period_days) has fewer than 2 rows holds no number.
C11_ShortWindowUndefined ==
    RetComputed =>
        \A k \in DOMAIN ret_df : \A label \in Range(Labels) :
            Len(ret_close.index) - FirstRowOfPeriod(ret_close, PeriodDays(label)) + 1 < 2
                => label \notin DOMAIN ret_df[k].r

\* C12: when the benchmark symbol is a column of close_prices, its row is the
\* first row of the returned table.
C12_BenchmarkRowFirst ==
    (ret_pc = "done" /\ BenchmarkSymbol \in Range(ret_close.cols)) =>
        /\ ret_full # <<>>
        /\ ret_full[1].Ticker = BenchmarkSymbol

C12_Witness ==
    /\ ret_pc = "done"
    /\ ret_benchmark = "spy"
    /\ BenchmarkSymbol \in Range(ret_close.cols)
    /\ ret_close.cols[1] # BenchmarkSymbol
    /\ \E k \in OtherRows : ret_full[k].r["1D"] > ret_full[1].r["1D"]

\* C13: the rows other than the benchmark's come after it, by non-increasing
\* 1D return, and every column of close_prices is the Ticker of exactly one
\* row.
C13_OthersSortedDescending ==
    ret_pc = "done" =>
        /\ \A k \in OtherRows : \A j \in DOMAIN ret_full \ OtherRows : j < k
        /\ \A k1, k2 \in OtherRows :
              k1 < k2 => ret_full[k1].r["1D"] >= ret_full[k2].r["1D"]
        /\ \A c \in Range(ret_close.cols) :
              Cardinality({k \in DOMAIN ret_full : ret_full[k].Ticker = c}) = 1
        /\ Len(ret_full) = Len(ret_close.cols)

C13_Witness ==
    /\ ret_pc = "done"
    /\ Len(ret_full) = 3
    /\ ret_full[1].Ticker = BenchmarkSymbol
    /\ ret_full[2].r["1D"] > ret_full[3].r["1D"]
    /\ ret_full[1].r["1D"] < ret_full[3].r["1D"]

\* C14: when the benchmark symbol is no column of close_prices and other
\* columns remain, no exception is raised and the returned table is the
\* remaining rows by non-increasing 1D return, without a benchmark row.
C14_BenchmarkAbsentNoError ==
    (BenchmarkSymbol \notin Range(ret_close.cols) /\ ret_close.cols # <<>>) =>
        /\ ret_exc = "none"
        /\ ret_pc # "raised"
        /\ ret_pc = "done" =>
              /\ \A k \in DOMAIN ret_full : ret_full[k].Ticker # BenchmarkSymbol
              /\ {ret_full[k].Ticker : k \in DOMAIN ret_full} = Range(ret_close.cols)
              /\ Len(ret_full) = Len(ret_close.cols)
              /\ \A k \in 1..(Len(ret_full) - 1) :
                    ret_full[k].r["1D"] >= ret_full[k + 1].r["1D"]

C14_Witness ==
    /\ ret_pc = "done"
    /\ "SPY" \in ret_price_data.nan
    /\ Len(ret_full) = 2
    /\ ret_full[1].r["1D"] > ret_full[2].r["1D"]

\* C15: every cell is (last - first) / first * 100 rounded to 2 decimals, last
\* the price at the latest date and first the price at the first row dated
\* latest_date - period_days or later; a price that doubles over the 1-day
\* window has 1D = 100.00.
C15_ReturnFormula ==
    RetComputed =>
        \A k \in DOMAIN ret_df : \A label \in Range(Labels) :
            LET prices == ret_close.val[ret_df[k].Ticker]
                last   == prices[Len(ret_close.index)]
                first  == prices[FirstRowOfPeriod(ret_close, PeriodDays(label))]
                cell   == ret_df[k].r[label]
                exact  == (last - first) * 10000
                diff   == cell * first - exact
            IN  /\ 2 * diff <= first
                /\ 2 * diff >= 0 - first
                /\ last = 2 * first => cell = 10000

C15_Witness ==
    /\ ret_pc = "done"
    /\ ret_close.index = <<399, 400>>
    /\ \E k \in DOMAIN ret_df :
          /\ ret_close.val[ret_df[k].Ticker] = <<1, 2>>
          /\ ret_df[k].r["1D"] = 10000
    /\ \E k \in DOMAIN ret_df :
          /\ ret_close.val[ret_df[k].Ticker] = <<3, 1>>
          /\ ret_df[k].r["1D"] = 0 - 6667

\* =========================================================================
\* calculate_sma_percentages, lines 84-94, called by the page with fetch_returns'
\* close_prices (no NaN, at least the benchmark's column) and "2024-09-11"
\* =========================================================================
MaxDates == 201          \* largest number of rows of a price table

\* rolling(20), rolling(50), rolling(200)
Horizons == {20, 50, 200}

\* start_date="2024-09-11", as the day of the year 2024
StartDate == 255

RECURSIVE SumRange(_, _, _)
\* prices[lo] + ... + prices[hi]
SumRange(prices, lo, hi) ==
    IF lo > hi THEN 0
    ELSE IF lo = hi THEN prices[lo]
    ELSE LET mid == (lo + hi) \div 2
         IN  SumRange(prices, lo, mid) + SumRange(prices, mid + 1, hi)

\* mutant: price_data is not restricted
RowsFrom_Unfiltered(t, start_date) == t

\* price_data.loc[price_data.index >= pd.to_datetime(start_date)], the index
\* ascending
RowsFrom(t, start_date) ==
    LET drop == Cardinality({k \in DOMAIN t.index : t.index[k] < start_date})
        rows == Len(t.index) - drop
    IN  [index |-> [k \in 1..rows |-> t.index[k + drop]],
         cols  |-> t.cols,
         val   |-> [c \in Range(t.cols) |-> [k \in 1..rows |-> t.val[c][k + drop]]],
         nan   |-> t.nan]

\* mutant: the window is the whole table
Loc_WholeTable(t, current_date) == Len(t.index)

\* price_data.loc[:current_date]: the rows up to current_date, by their number
Loc(t, current_date) ==
    Cardinality({k \in DOMAIN t.index : t.index[k] <= current_date})

\* mutant: a close equal to its average counts
Above_OrEqual(prices, rows, K) ==
    /\ rows >= K
    /\ K * prices[rows] >= SumRange(prices, rows - K + 1, rows)

\* window.iloc[-1] > window.rolling(K).mean().iloc[-1] for one column of a
\* window of that many rows: the mean is NaN with fewer than K rows, and a
\* comparison with NaN is False
Above(prices, rows, K) ==
    /\ rows >= K
    /\ K * prices[rows] > SumRange(prices, rows - K + 1, rows)

\* (...).mean() * 100 of a Series of booleans: above / of * 100
MeanOfFlags(flags) ==
    [above |-> Cardinality({c \in DOMAIN flags : flags[c]}),
     of    |-> Cardinality(DOMAIN flags)]

\* mutant: the window ends at the row before current_date
ResultsEntry_BeforeDate(t, current_date) ==
    LET window == Loc(t, current_date) - 1
    IN  [K \in Horizons |->
            MeanOfFlags([c \in Range(t.cols) |-> Above(t.val[c], window, K)])]

\* lines 87-90: the three values appended for current_date
ResultsEntry(t, current_date) ==
    LET window == Loc(t, current_date)
    IN  [K \in Horizons |->
            MeanOfFlags([c \in Range(t.cols) |-> Above(t.val[c], window, K)])]

\* pd.DataFrame(results, index=price_data.index), the columns by their horizon
SmaFrame(results, index) ==
    [k \in DOMAIN index |-> [date |-> index[k], pct |-> results[k]]]

\* ------------------------------------------------------------ the inputs
Shapes == {"flat", "up", "down", "last_up"}

\* the close of row k of n
Price(shape, k, n) ==
    CASE shape = "flat"    -> 5
      [] shape = "up"      -> 5 + k
      [] shape = "down"    -> 5 + n - k
      [] shape = "last_up" -> IF k = n THEN 6 ELSE 5

\* the same close up to row cut, another one after it
TwinPrice(shape, k, n, cut) == IF k <= cut THEN Price(shape, k, n) ELSE 1

SmaLengths == {1, 20, 21, 51, MaxDates}

SmaCuts == {19, 200, MaxDates}

SmaColumnLists == {<<"SPY">>, <<"SPY", "AAA">>}

SmaInit ==
    /\ sma_pc = "start"
    /\ sma_start_date = StartDate
    /\ \E n \in SmaLengths, first \in {StartDate - 1, StartDate},
          cs \in SmaColumnLists, cut \in SmaCuts :
          \E shape \in [Range(cs) -> Shapes] :
             LET index == [k \in 1..n |-> first + k - 1]
             IN  /\ sma_arg = [index |-> index, cols |-> cs, nan |-> {},
                               val |-> [c \in Range(cs) |->
                                   [k \in 1..n |-> Price(shape[c], k, n)]]]
                 /\ twin_arg = [index |-> index, cols |-> cs, nan |-> {},
                                val |-> [c \in Range(cs) |->
                                   [k \in 1..n |-> TwinPrice(shape[c], k, n, cut)]]]
    /\ sma_price_data = EmptyTable
    /\ twin_price_data = EmptyTable
    /\ sma_n = 0
    /\ sma_results = <<>>
    /\ twin_results = <<>>
    /\ sma_data = <<>>
    /\ twin_data = <<>>

InitSma == PipelineIdle /\ RetIdle /\ SmaInit /\ SeasIdle /\ HalfIdle /\ HoldIdle /\ CacheIdle

\* ----------------------------------------------------------- the actions
\* lines 85-86
SmaFilter ==
    /\ sma_pc = "start"
    /\ sma_price_data' = RowsFrom(sma_arg, sma_start_date)
    /\ twin_price_data' = RowsFrom(twin_arg, sma_start_date)
    /\ sma_results' = <<>>
    /\ twin_results' = <<>>
    /\ sma_n' = 0
    /\ sma_pc' = "loop"
    /\ UNCHANGED <<sma_arg, twin_arg, sma_start_date, sma_data, twin_data>>
    /\ UNCHANGED exceptSma

\* lines 87-91: one turn of the loop over price_data.index
SmaStep ==
    /\ sma_pc = "loop"
    /\ sma_n < Len(sma_price_data.index)
    /\ sma_results' = Append(sma_results,
            ResultsEntry(sma_price_data, sma_price_data.index[sma_n + 1]))
    /\ twin_results' = Append(twin_results,
            ResultsEntry(twin_price_data, twin_price_data.index[sma_n + 1]))
    /\ sma_n' = sma_n + 1
    /\ UNCHANGED <<sma_pc, sma_arg, twin_arg, sma_start_date, sma_price_data,
                   twin_price_data, sma_data, twin_data>>
    /\ UNCHANGED exceptSma

\* lines 92-94
SmaReturn ==
    /\ sma_pc = "loop"
    /\ sma_n = Len(sma_price_data.index)
    /\ sma_data' = SmaFrame(sma_results, sma_price_data.index)
    /\ twin_data' = SmaFrame(twin_results, twin_price_data.index)
    /\ sma_pc' = "done"
    /\ UNCHANGED <<sma_arg, twin_arg, sma_start_date, sma_price_data,
                   twin_price_data, sma_n, sma_results, twin_results>>
    /\ UNCHANGED exceptSma

NextSma ==
    \/ SmaFilter
    \/ SmaStep
    \/ SmaReturn

SpecSma == InitSma /\ [][NextSma]_vars

\* ---------------------------------------------------- reading sma_data
\* the number of rows of the restricted price_data up to the date of row k
Observations(k) == k

\* the two argument tables have the same rows up to date d
AgreeUpTo(d) ==
    \A j \in DOMAIN sma_arg.index :
        sma_arg.index[j] <= d =>
            /\ j \in DOMAIN twin_arg.index
            /\ twin_arg.index[j] = sma_arg.index[j]
            /\ \A c \in Range(sma_arg.cols) :
                  sma_arg.val[c][j] = twin_arg.val[c][j]

\* C16: a column with fewer than K observations at a date is left out of the
\* K-day percentage of that date, of its numerator and of its denominator.
C16_ShortHistoryExcluded ==
    sma_pc = "done" =>
        \A k \in DOMAIN sma_data : \A K \in Horizons :
            sma_data[k].pct[K].of =
                Cardinality({c \in Range(sma_price_data.cols) : Observations(k) >= K})

\* C17: with K observations or more, the columns counted above at a date are
\* those whose close is strictly greater than the mean of the K closes ending
\* at the date; a close equal to that mean is not counted.
C17_StrictlyAbove ==
    sma_pc = "done" =>
        \A k \in DOMAIN sma_data : \A K \in Horizons :
            Observations(k) >= K =>
                sma_data[k].pct[K].above =
                    Cardinality({c \in Range(sma_price_data.cols) :
                        K * sma_price_data.val[c][k] >
                            SumRange(sma_price_data.val[c], k - K + 1, k)})

C17_Witness ==
    /\ sma_pc = "done"
    /\ Len(sma_price_data.cols) = 2
    /\ \E k \in DOMAIN sma_data :
          /\ Observations(k) >= 50
          /\ \A j \in 1..k : sma_price_data.val["SPY"][j] = sma_price_data.val["SPY"][1]
          /\ sma_price_data.val["AAA"][k] > sma_price_data.val["AAA"][k - 1]
          /\ sma_data[k].pct[50].above = 1

\* C18: the percentages of a date are the same for two tables that have the
\* same rows up to that date.
C18_NoLookAhead ==
    sma_pc = "done" =>
        \A k \in DOMAIN sma_data :
            AgreeUpTo(sma_data[k].date) =>
                /\ k \in DOMAIN twin_data
                /\ twin_data[k] = sma_data[k]

C18_Witness ==
    /\ sma_pc = "done"
    /\ \E k \in DOMAIN sma_data :
          /\ Observations(k) >= 20
          /\ AgreeUpTo(sma_data[k].date)
          /\ sma_data[k].pct[20].above > 0
          /\ k + 1 \in DOMAIN sma_data
          /\ sma_data[k + 1].pct[20] # twin_data[k + 1].pct[20]

\* C19: sma_data has one row for each date of the argument table that is
\* start_date or later, in order, and no other row; every percentage is
\* between 0 and 100.
C19_RowsAndRange ==
    sma_pc = "done" =>
        /\ [k \in DOMAIN sma_data |-> sma_data[k].date] =
              SelectSeq(sma_arg.index, LAMBDA d : d >= sma_start_date)
        /\ \A k \in DOMAIN sma_data : \A K \in Horizons :
              /\ sma_data[k].pct[K].of > 0
              /\ 0 <= 100 * sma_data[k].pct[K].above
              /\ 100 * sma_data[k].pct[K].above <= 100 * sma_data[k].pct[K].of

C19_Witness ==
    /\ sma_pc = "done"
    /\ sma_arg.index[1] < sma_start_date
    /\ Len(sma_data) = Len(sma_arg.index) - 1
    /\ \E k \in DOMAIN sma_data :
          /\ sma_data[k].pct[200].above = sma_data[k].pct[200].of
          /\ sma_data[k].pct[20].above = sma_data[k].pct[20].of
    /\ sma_data[1].pct[20].above = 0

\* =========================================================================
\* The seasonality page, src/pages/2_Seasonality.py lines 22-32
\* =========================================================================
MaxYearDays == 2         \* largest number of observations of a calendar year

\* a fraction n / d in lowest terms; d = 0 stands for NaN
NaN == [n |-> 0, d |-> 0]

IsNaN(x) == x.d = 0

Abs(x) == IF x < 0 THEN 0 - x ELSE x

RECURSIVE Gcd(_, _)
Gcd(a, b) == IF b = 0 THEN a ELSE Gcd(b, a % b)

Fraction(n, d) ==
    LET g == Gcd(Abs(n), d)
    IN  [n |-> n \div g, d |-> d \div g]

Plus(x, y) == Fraction(x.n * y.d + y.n * x.d, x.d * y.d)

RECURSIVE SumOf(_)
\* the sum of a sequence of fractions
SumOf(xs) == IF xs = <<>> THEN Fraction(0, 1) ELSE Plus(Head(xs), SumOf(Tail(xs)))

\* Series.pct_change(): close[k] / close[k - 1] - 1, NaN in the first row
PctChange(close) ==
    [k \in DOMAIN close |->
        IF k = 1 THEN NaN
        ELSE Fraction(close[k] - close[k - 1], close[k - 1])]

\* mutant: the count is the calendar day of the year
CumCount_DayOfYear(index) == [k \in DOMAIN index |-> index[k].day - 1]

\* index.to_series().groupby(index.year).cumcount(): for each row, the number
\* of earlier rows of its year
CumCount(index) ==
    [k \in DOMAIN index |->
        Cardinality({j \in 1..(k - 1) : index[j].year = index[k].year})]

\* groupby('TradingDayOfYear')['Returns'].mean(): for each ordinal, the mean
\* of the Returns of its rows that are not NaN
GroupMean(df) ==
    [t \in Range(df.TradingDayOfYear) |->
        LET rows == SelectSeq([k \in DOMAIN df.index |-> k],
                        LAMBDA k : df.TradingDayOfYear[k] = t /\ ~IsNaN(df.Returns[k]))
            sum  == SumOf([k \in DOMAIN rows |-> df.Returns[rows[k]]])
        IN  IF rows = <<>> THEN NaN ELSE Fraction(sum.n, sum.d * Len(rows))]

One == Fraction(1, 1)

Times(x, y) == Fraction(x.n * y.n, x.d * y.d)

Minus(x, y) == Fraction(x.n * y.d - y.n * x.d, x.d * y.d)

\* the square root of a fraction, kept by its square; NaN if the square is
Root(sq) == [sq |-> sq]

\* groupby('TradingDayOfYear')['Returns'].std(): for each ordinal, the sample
\* standard deviation (ddof=1) of the Returns of its rows that are not NaN,
\* NaN with fewer than 2 of them
GroupStd(df) ==
    [t \in Range(df.TradingDayOfYear) |->
        LET rows == SelectSeq([k \in DOMAIN df.index |-> k],
                        LAMBDA k : df.TradingDayOfYear[k] = t /\ ~IsNaN(df.Returns[k]))
            sum  == SumOf([k \in DOMAIN rows |-> df.Returns[rows[k]]])
            mean == Fraction(sum.n, sum.d * Len(rows))
            sq   == SumOf([k \in DOMAIN rows |->
                        Times(Minus(df.Returns[rows[k]], mean),
                              Minus(df.Returns[rows[k]], mean))])
        IN  IF Len(rows) < 2 THEN Root(NaN)
            ELSE Root(Fraction(sq.n, sq.d * (Len(rows) - 1)))]

\* Series + 1
AddOne(xs) == [t \in DOMAIN xs |-> IF IsNaN(xs[t]) THEN NaN ELSE Plus(xs[t], One)]

\* Series - 1
SubOne(xs) == [t \in DOMAIN xs |-> IF IsNaN(xs[t]) THEN NaN ELSE Minus(xs[t], One)]

RECURSIVE SumUpTo(_, _)
SumUpTo(xs, t) ==
    IF t = 0 THEN Fraction(0, 1)
    ELSE IF IsNaN(xs[t]) THEN SumUpTo(xs, t - 1)
    ELSE Plus(SumUpTo(xs, t - 1), xs[t])

\* mutant: the running sum
CumProd_CumSum(xs) ==
    [t \in DOMAIN xs |-> IF IsNaN(xs[t]) THEN NaN ELSE SumUpTo(xs, t)]

RECURSIVE ProdUpTo(_, _)
ProdUpTo(xs, t) ==
    IF t = 0 THEN One
    ELSE IF IsNaN(xs[t]) THEN ProdUpTo(xs, t - 1)
    ELSE Times(ProdUpTo(xs, t - 1), xs[t])

\* Series.cumprod() over the ordinals 1, 2, ...: skipna, a NaN entry stays
\* NaN and is left out of the later products
CumProd(xs) ==
    [t \in DOMAIN xs |-> IF IsNaN(xs[t]) THEN NaN ELSE ProdUpTo(xs, t)]

\* no band
NaNBand == [curve |-> NaN, sign |-> 0, sq |-> NaN]

\* seasonality + sign * std_deviation, entry by entry
Band(curve, std, sign) ==
    [t \in DOMAIN curve |->
        IF IsNaN(curve[t]) \/ IsNaN(std[t].sq) THEN NaNBand
        ELSE [curve |-> curve[t], sign |-> sign, sq |-> std[t].sq]]

\* ------------------------------------------------------------ the inputs
\* yf.download(seasonality_ticker, start='1990-01-01')
SeasYears == <<1990, 1991, 1992>>

\* the day of the year of a year's first observation
FirstDays == {2, 3}

SeasCloses == {1, 2}

RECURSIVE Flatten(_)
Flatten(ss) == IF ss = <<>> THEN <<>> ELSE Head(ss) \o Flatten(Tail(ss))

\* the dates of the years, days[y] observations in year y from first[y] on
SeasIndex(days, first) ==
    Flatten([y \in DOMAIN SeasYears |->
        [k \in 1..days[y] |-> [year |-> SeasYears[y], day |-> first[y] + k - 1]]])

SeasInit ==
    /\ seas_pc = "start"
    /\ \/ seas_df = [index |-> <<>>, Close |-> <<>>]
       \/ \E days \in [DOMAIN SeasYears -> 0..MaxYearDays],
             first \in [DOMAIN SeasYears -> FirstDays] :
             LET index == SeasIndex(days, first)
             IN  \E close \in [DOMAIN index -> SeasCloses] :
                    /\ index # <<>>
                    /\ seas_df = [index |-> index, Close |-> close]
    /\ seas_avg = <<>>
    /\ seas_std = <<>>
    /\ seas_seasonality = <<>>
    /\ seas_upper = <<>>
    /\ seas_lower = <<>>

InitSeas == PipelineIdle /\ RetIdle /\ SmaIdle /\ SeasInit /\ HalfIdle /\ HoldIdle /\ CacheIdle

\* ----------------------------------------------------------- the actions
\* lines 23-24: df.empty
SeasNoData ==
    /\ seas_pc = "start"
    /\ seas_df.index = <<>>
    /\ seas_pc' = "warned"
    /\ UNCHANGED <<seas_df, seas_avg, seasCurves>>
    /\ UNCHANGED exceptSeas

\* line 26
SeasReturns ==
    /\ seas_pc = "start"
    /\ seas_df.index # <<>>
    /\ seas_df' = seas_df @@ ("Returns" :> PctChange(seas_df.Close))
    /\ seas_pc' = "returns"
    /\ UNCHANGED <<seas_avg, seasCurves>>
    /\ UNCHANGED exceptSeas

\* line 27
SeasOrdinals ==
    /\ seas_pc = "returns"
    /\ seas_df' = seas_df @@ ("TradingDayOfYear" :>
            [k \in DOMAIN seas_df.index |-> CumCount(seas_df.index)[k] + 1])
    /\ seas_pc' = "ordinals"
    /\ UNCHANGED <<seas_avg, seasCurves>>
    /\ UNCHANGED exceptSeas

\* line 28
SeasAverage ==
    /\ seas_pc = "ordinals"
    /\ seas_avg' = GroupMean(seas_df)
    /\ seas_pc' = "averaged"
    /\ UNCHANGED <<seas_df, seasCurves>>
    /\ UNCHANGED exceptSeas

\* line 29
SeasStd ==
    /\ seas_pc = "averaged"
    /\ seas_std' = GroupStd(seas_df)
    /\ seas_pc' = "std"
    /\ UNCHANGED <<seas_df, seas_avg, seas_seasonality, seas_upper, seas_lower>>
    /\ UNCHANGED exceptSeas

\* line 30
SeasCurve ==
    /\ seas_pc = "std"
    /\ seas_seasonality' = SubOne(CumProd(AddOne(seas_avg)))
    /\ seas_pc' = "curve"
    /\ UNCHANGED <<seas_df, seas_avg, seas_std, seas_upper, seas_lower>>
    /\ UNCHANGED exceptSeas

\* lines 31-32
SeasBands ==
    /\ seas_pc = "curve"
    /\ seas_upper' = Band(seas_seasonality, seas_std, 1)
    /\ seas_lower' = Band(seas_seasonality, seas_std, 0 - 1)
    /\ seas_pc' = "bands"
    /\ UNCHANGED <<seas_df, seas_avg, seas_std, seas_seasonality>>
    /\ UNCHANGED exceptSeas

NextSeas ==
    \/ SeasNoData
    \/ SeasReturns
    \/ SeasOrdinals
    \/ SeasAverage
    \/ SeasStd
    \/ SeasCurve
    \/ SeasBands

SpecSeas == InitSeas /\ [][NextSeas]_vars

\* ------------------------------------------------------------ reading df
\* the rows of a calendar year, in date order
RowsOfYear(y) ==
    SelectSeq([k \in DOMAIN seas_df.index |-> k],
              LAMBDA k : seas_df.index[k].year = y)

\* the Returns of a calendar year, in date order
ReturnsOfYear(y) ==
    LET rows == RowsOfYear(y) IN [k \in DOMAIN rows |-> seas_df.Returns[rows[k]]]

\* the Returns that a year's rows bring to the group of ordinal t
Contribution(y, t) ==
    {seas_df.Returns[k] : k \in {j \in DOMAIN seas_df.index :
        seas_df.index[j].year = y /\ seas_df.TradingDayOfYear[j] = t}}

\* C20: TradingDayOfYear is 1 at the first observation of every calendar
\* year, whatever its date, and one more than at the observation before it
\* otherwise; two years with the same Returns in date order bring the same
\* value to the mean of every ordinal.
C20_OrdinalIsRankInYear ==
    seas_pc \in {"ordinals", "averaged"} =>
        /\ \A k \in DOMAIN seas_df.index :
              IF k = 1 \/ seas_df.index[k - 1].year # seas_df.index[k].year
                 THEN seas_df.TradingDayOfYear[k] = 1
                 ELSE seas_df.TradingDayOfYear[k] = seas_df.TradingDayOfYear[k - 1] + 1
        /\ \A y1, y2 \in Range(SeasYears) :
              ReturnsOfYear(y1) = ReturnsOfYear(y2) =>
                  \A t \in 1..(MaxYearDays + 1) :
                      Contribution(y1, t) = Contribution(y2, t)
        /\ seas_pc = "averaged" =>
              \A t \in DOMAIN seas_avg :
                  \A k \in DOMAIN seas_df.index :
                      (/\ seas_df.TradingDayOfYear[k] = t
                       /\ ~IsNaN(seas_df.Returns[k])
                       /\ \A j \in DOMAIN seas_df.index :
                             (seas_df.TradingDayOfYear[j] = t /\ ~IsNaN(seas_df.Returns[j]))
                                 => seas_df.Returns[j] = seas_df.Returns[k])
                          => seas_avg[t] = seas_df.Returns[k]

C20_Witness ==
    /\ seas_pc = "averaged"
    /\ Len(RowsOfYear(1991)) = 2
    /\ ReturnsOfYear(1991) = ReturnsOfYear(1992)
    /\ seas_df.index[RowsOfYear(1991)[1]].day # seas_df.index[RowsOfYear(1992)[1]].day
    /\ ReturnsOfYear(1991)[1] # ReturnsOfYear(1991)[2]
    /\ seas_avg[2] = ReturnsOfYear(1991)[2]
    /\ seas_avg[2].n # 0

\* the Returns of the rows of ordinal t that are not NaN, by row
Sample(t) ==
    LET rows == SelectSeq([k \in DOMAIN seas_df.index |-> k],
                    LAMBDA k : seas_df.TradingDayOfYear[k] = t /\ ~IsNaN(seas_df.Returns[k]))
    IN  [k \in DOMAIN rows |-> seas_df.Returns[rows[k]]]

\* (sum of x^2 - n * mean^2) / (n - 1) of the Returns of ordinal t
SampleVariance(t) ==
    LET xs   == Sample(t)
        n    == Len(xs)
        sq   == SumOf([k \in DOMAIN xs |-> Times(xs[k], xs[k])])
        m    == seas_avg[t]
        num  == Minus(sq, Times(Fraction(n, 1), Times(m, m)))
    IN  Fraction(num.n, num.d * (n - 1))

\* the last ordinal before t whose mean return is a number, 0 if none
Before(t) ==
    LET S == {j \in 1..(t - 1) : ~IsNaN(seas_avg[j])}
    IN  IF S = {} THEN 0 ELSE MaxOf(S)

\* the bands of ordinal t are the curve plus and minus the sample standard
\* deviation of the Returns of t, and NaN where one of the two is
BandsOf(t) ==
    IF IsNaN(seas_seasonality[t]) \/ Len(Sample(t)) < 2
       THEN IsNaN(seas_upper[t].curve) /\ IsNaN(seas_lower[t].curve)
       ELSE /\ seas_upper[t] = [curve |-> seas_seasonality[t], sign |-> 1,
                                sq |-> SampleVariance(t)]
            /\ seas_lower[t] = [curve |-> seas_seasonality[t], sign |-> 0 - 1,
                                sq |-> SampleVariance(t)]

\* C21 as stated: the curve at ordinal k is the product over all the ordinals
\* j = 1..k of (1 + mean return at j), minus 1, not a number when one of the
\* means is not; the bands are the curve plus and minus the standard deviation.
C21_CurveIsProductOverAll ==
    seas_pc = "bands" =>
        \A k \in DOMAIN seas_seasonality :
            /\ IF \E j \in 1..k : IsNaN(seas_avg[j])
                  THEN IsNaN(seas_seasonality[k])
                  ELSE Plus(seas_seasonality[k], One) =
                          Times(IF k = 1 THEN One
                                         ELSE Plus(seas_seasonality[k - 1], One),
                                Plus(seas_avg[k], One))
            /\ BandsOf(k)

\* C21, amended: the curve at ordinal k is the product, in increasing ordinal
\* order, of (1 + mean return at j) over the ordinals j = 1..k whose mean
\* return is a number, minus 1, and is not a number where the mean at k is
\* not; the bands are the curve plus and minus the standard deviation.
C21_CurveIsProductOverDefined ==
    seas_pc = "bands" =>
        \A k \in DOMAIN seas_seasonality :
            /\ IF IsNaN(seas_avg[k])
                  THEN IsNaN(seas_seasonality[k])
                  ELSE Plus(seas_seasonality[k], One) =
                          Times(IF Before(k) = 0 THEN One
                                   ELSE Plus(seas_seasonality[Before(k)], One),
                                Plus(seas_avg[k], One))
            /\ BandsOf(k)

C21_Witness ==
    /\ seas_pc = "bands"
    /\ 2 \in DOMAIN seas_seasonality
    /\ seas_seasonality[2] # seas_avg[2]
    /\ seas_seasonality[1].n # 0
    /\ ~IsNaN(seas_upper[2].curve)
    /\ seas_upper[2].sq.n # 0

\* =========================================================================
\* The half-month grouping, src/pages/2_Seasonality.py lines 77-89
\* =========================================================================
MaxHalfRows == 2         \* largest number of rows of df

chronological_half_months ==
    <<"Jan1H", "Jan2H", "Feb1H", "Feb2H", "Mar1H", "Mar2H", "Apr1H", "Apr2H",
      "May1H", "May2H", "Jun1H", "Jun2H", "Jul1H", "Jul2H", "Aug1H", "Aug2H",
      "Sep1H", "Sep2H", "Oct1H", "Oct2H", "Nov1H", "Nov2H", "Dec1H", "Dec2H">>

\* strftime('%b'), by month
MonthAbbr ==
    <<"Jan", "Feb", "Mar", "Apr", "May", "Jun",
      "Jul", "Aug", "Sep", "Oct", "Nov", "Dec">>

\* mutant: the 15th is in the second half
HalfOf_Before15(day) == IF day < 15 THEN "1H" ELSE "2H"

\* lambda x: '1H' if x.day <= 15 else '2H'
HalfOf(day) == IF day <= 15 THEN "1H" ELSE "2H"

\* line 81, for one date
MonthHalfLabel(date) == MonthAbbr[date.month] \o HalfOf(date.day)

\* pd.Categorical(..., categories=chronological_half_months): a value that is
\* no category is NaN
Categorical(label) ==
    IF label \in Range(chronological_half_months) THEN label ELSE "NaN"

\* the code of a category, NaN after all of them
CategoryCode(label) ==
    IF label = "NaN" THEN Len(chronological_half_months) + 1
    ELSE CHOOSE k \in DOMAIN chronological_half_months :
            chronological_half_months[k] = label

\* df.sort_values(by='MonthHalf'): the orders of the rows by rising category,
\* equal categories in any order
SortByMonthHalf(df) ==
    {p \in Permutations(DOMAIN df.index) :
        \A k \in 1..(Len(df.index) - 1) :
            CategoryCode(df.MonthHalf[p[k]]) <= CategoryCode(df.MonthHalf[p[k + 1]])}

\* the rows of df in the order p
Reindex(df, p) == [c \in DOMAIN df |-> [k \in DOMAIN p |-> df[c][p[k]]]]

\* df[df['MonthHalf'] == mh]['Returns'].dropna()
BucketReturns(df, mh) ==
    LET rows == SelectSeq([k \in DOMAIN df.index |-> k],
                    LAMBDA k : df.MonthHalf[k] = mh /\ ~IsNaN(df.Returns[k]))
    IN  [k \in DOMAIN rows |-> df.Returns[rows[k]]]

\* ttest_1samp(xs, 0)[1]: the p-value, kept by the size, the mean and the
\* sample variance it is computed from; NaN with fewer than 2 values
TTest1Samp(xs) ==
    LET n    == Len(xs)
        sum  == SumOf(xs)
        mean == Fraction(sum.n, sum.d * n)
        sq   == SumOf([k \in DOMAIN xs |->
                    Times(Minus(xs[k], mean), Minus(xs[k], mean))])
    IN  IF n < 2 THEN [n |-> n, mean |-> NaN, var |-> NaN]
        ELSE [n |-> n, mean |-> mean, var |-> Fraction(sq.n, sq.d * (n - 1))]

\* ------------------------------------------------------------ the inputs
HalfMonths == 1..12

HalfDays == {1, 15, 16}

HalfReturns == {NaN, One}

\* the dates of df rise
HalfIndexes ==
    UNION {{ix \in [1..n -> [month : HalfMonths, day : HalfDays]] :
              \A k \in 1..(n - 1) :
                  \/ ix[k].month < ix[k + 1].month
                  \/ ix[k].month = ix[k + 1].month /\ ix[k].day < ix[k + 1].day}
           : n \in 1..MaxHalfRows}

HalfInit ==
    /\ half_pc = "start"
    /\ \E ix \in HalfIndexes :
          \E rs \in [DOMAIN ix -> HalfReturns] :
             half_df = [index |-> ix, Returns |-> rs]
    /\ half_sig = <<>>
    /\ half_adj = <<>>

InitHalf == PipelineIdle /\ RetIdle /\ SmaIdle /\ SeasIdle /\ HalfInit /\ HoldIdle /\ CacheIdle

\* ----------------------------------------------------------- the actions
\* lines 81-82
HalfAssign ==
    /\ half_pc = "start"
    /\ half_df' = half_df @@ ("MonthHalf" :>
            [k \in DOMAIN half_df.index |->
                Categorical(MonthHalfLabel(half_df.index[k]))])
    /\ half_pc' = "assigned"
    /\ UNCHANGED <<half_sig, half_adj>>
    /\ UNCHANGED exceptHalf

\* line 83
HalfSort ==
    /\ half_pc = "assigned"
    /\ \E p \in SortByMonthHalf(half_df) : half_df' = Reindex(half_df, p)
    /\ half_pc' = "sorted"
    /\ UNCHANGED <<half_sig, half_adj>>
    /\ UNCHANGED exceptHalf

\* lines 85-88
HalfSignificance ==
    /\ half_pc = "sorted"
    /\ half_sig' = [mh \in Range(chronological_half_months) |->
                        TTest1Samp(BucketReturns(half_df, mh))]
    /\ half_pc' = "tested"
    /\ UNCHANGED <<half_df, half_adj>>
    /\ UNCHANGED exceptHalf

\* line 89
HalfAdjust ==
    /\ half_pc = "tested"
    /\ half_adj' = [k \in DOMAIN half_sig |->
                        [p |-> half_sig[k], times |-> Len(chronological_half_months)]]
    /\ half_pc' = "adjusted"
    /\ UNCHANGED <<half_df, half_sig>>
    /\ UNCHANGED exceptHalf

NextHalf ==
    \/ HalfAssign
    \/ HalfSort
    \/ HalfSignificance
    \/ HalfAdjust

SpecHalf == InitHalf /\ [][NextHalf]_vars

\* ----------------------------------------------------- reading the buckets
\* the bucket of a date: two for each month, the first for the days up to the
\* 15th
BucketOf(date) ==
    chronological_half_months[2 * (date.month - 1) + (IF date.day <= 15 THEN 1 ELSE 2)]

\* C22: every row of df is in exactly one of the 24 buckets, the one of its
\* date's month and of its half, 1H for the days of the month up to the 15th
\* and 2H after it; significance_levels has a value for each of the 24 buckets.
C22_TwentyFourBuckets ==
    /\ Cardinality(Range(chronological_half_months)) = 24
    /\ half_pc \in {"assigned", "sorted", "tested", "adjusted"} =>
          \A k \in DOMAIN half_df.index :
              /\ half_df.MonthHalf[k] = BucketOf(half_df.index[k])
              /\ Cardinality({mh \in Range(chronological_half_months) :
                                 half_df.MonthHalf[k] = mh}) = 1
    /\ half_pc \in {"tested", "adjusted"} =>
          /\ DOMAIN half_sig = Range(chronological_half_months)
          /\ \A mh \in DOMAIN half_sig :
                half_sig[mh].n =
                    Cardinality({k \in DOMAIN half_df.index :
                        /\ BucketOf(half_df.index[k]) = mh
                        /\ ~IsNaN(half_df.Returns[k])})
    /\ half_pc = "adjusted" => DOMAIN half_adj = Range(chronological_half_months)

C22_Witness ==
    /\ half_pc = "adjusted"
    /\ Len(half_df.index) = 2
    /\ half_df.index[1] = [month |-> 12, day |-> 15]
    /\ half_df.index[2] = [month |-> 12, day |-> 16]
    /\ half_df.MonthHalf = <<"Dec1H", "Dec2H">>
    /\ half_sig["Dec1H"].n = 1
    /\ half_sig["Jan1H"].n = 0

\* =========================================================================
\* fetch_holdings, src/utils/data_utils.py lines 8-41
\* =========================================================================
MaxSheetRows == 3        \* largest number of rows of the sheet

\* a string is the sequence of its characters
UpperCase ==
    <<"A", "B", "C", "D", "E", "F", "G", "H", "I", "J", "K", "L", "M",
      "N", "O", "P", "Q", "R", "S", "T", "U", "V", "W", "X", "Y", "Z">>

LowerCase ==
    <<"a", "b", "c", "d", "e", "f", "g", "h", "i", "j", "k", "l", "m",
      "n", "o", "p", "q", "r", "s", "t", "u", "v", "w", "x", "y", "z">>

Digits == {"0", "1", "2", "3", "4", "5", "6", "7", "8", "9"}

Pos(ch, alphabet) == CHOOSE k \in DOMAIN alphabet : alphabet[k] = ch

\* str.lower()
StrLower(str) ==
    [k \in DOMAIN str |->
        IF str[k] \in Range(UpperCase) THEN LowerCase[Pos(str[k], UpperCase)]
        ELSE str[k]]

\* str.upper()
StrUpper(str) ==
    [k \in DOMAIN str |->
        IF str[k] \in Range(LowerCase) THEN UpperCase[Pos(str[k], LowerCase)]
        ELSE str[k]]

RECURSIVE LStrip(_)
LStrip(str) == IF str # <<>> /\ Head(str) = " " THEN LStrip(Tail(str)) ELSE str

\* str.strip()
StrStrip(str) == Reverse(LStrip(Reverse(LStrip(str))))

\* mutant: every string but the empty one passes
IsAlpha_NonEmpty(str) == str # <<>>

\* str.isalpha()
IsAlpha(str) ==
    /\ str # <<>>
    /\ \A k \in DOMAIN str : str[k] \in Range(UpperCase) \cup Range(LowerCase)

\* the string is the text of a number: digits, with a point at most
IsNumber(str) ==
    /\ \E k \in DOMAIN str : str[k] \in Digits
    /\ \A k \in DOMAIN str : str[k] \in Digits \cup {"."}
    /\ Cardinality({k \in DOMAIN str : str[k] = "."}) <= 1

\* the cells of a sheet: a string, a number (by its text) or NaN
Str(str) == [kind |-> "str", s |-> str]

Num(str) == [kind |-> "num", s |-> str]

NaNCell == [kind |-> "nan", s |-> <<>>]

\* astype(str)
AsTypeStr(cell) == IF cell.kind = "nan" THEN <<"n", "a", "n">> ELSE cell.s

\* pd.to_numeric(errors='coerce')
ToNumeric(cell) ==
    IF cell.kind = "num" THEN cell
    ELSE IF cell.kind = "str" /\ IsNumber(cell.s) THEN Num(cell.s)
    ELSE NaNCell

Ticker == <<"T", "i", "c", "k", "e", "r">>

Weight == <<"W", "e", "i", "g", "h", "t">>

\* lines 19-20: "ticker" in row.values and "weight" in row.values, row the
\* cells as stripped lower-case strings
HeaderMatch(row) ==
    LET values == {StrLower(StrStrip(AsTypeStr(row[k]))) : k \in DOMAIN row}
    IN  StrLower(Ticker) \in values /\ StrLower(Weight) \in values

\* name in data.columns
HasColumn(headers, name) == \E k \in DOMAIN headers : headers[k] = Str(name)

ColumnOf(headers, name) == CHOOSE k \in DOMAIN headers : headers[k] = Str(name)

\* lines 28-30: raw.iloc[header_row_idx + 1:] under the cells of the header
\* row, each row with its index in raw
DataOf(raw, header_row_idx) ==
    [columns |-> raw[header_row_idx + 1],
     rows    |-> [k \in 1..(Len(raw) - header_row_idx - 1) |->
                    [at |-> header_row_idx + k, cells |-> raw[header_row_idx + 1 + k]]]]

\* lines 36-39
Clean(data) ==
    LET t == ColumnOf(data.columns, Ticker)
        w == ColumnOf(data.columns, Weight)
        picked  == [k \in DOMAIN data.rows |->
                      [at |-> data.rows[k].at,
                       Ticker |-> data.rows[k].cells[t],
                       Weight |-> data.rows[k].cells[w]]]
        dropped == SelectSeq(picked, LAMBDA r :
                      r.Ticker.kind # "nan" /\ r.Weight.kind # "nan")
        cleaned == [k \in DOMAIN dropped |->
                      [at |-> dropped[k].at,
                       Ticker |-> StrUpper(StrStrip(AsTypeStr(dropped[k].Ticker))),
                       Weight |-> ToNumeric(dropped[k].Weight)]]
    IN  SelectSeq(cleaned, LAMBDA r : IsAlpha(r.Ticker) /\ r.Weight.kind # "nan")

\* ------------------------------------------------------------ the inputs
SheetRows ==
    {<<Str(<<"F", "u", "n", "d">>), NaNCell>>,
     <<Str(<<" ", "t", "i", "c", "k", "e", "r">>), Str(<<"W", "E", "I", "G", "H", "T">>)>>,
     <<Str(Ticker), Str(Weight)>>,
     <<Str(Weight), Str(Ticker)>>,
     <<Str(<<"A", "A", "P", "L">>), Num(<<"5">>)>>,
     <<Str(<<" ", "m", "s", "f", "t", " ">>), Str(<<"1", "2", ".", "5">>)>>,
     <<Str(<<"B", "R", "K", ".", "B">>), Num(<<"7">>)>>,
     <<Str(<<"X", "O", "M">>), Str(<<"n", "/", "a">>)>>,
     <<NaNCell, Num(<<"3">>)>>}

Sheets == UNION {[1..n -> SheetRows] : n \in 0..MaxSheetRows}

HoldInit ==
    /\ hold_pc = "start"
    /\ hold_raw \in Sheets
    /\ hold_reads = 0
    /\ hold_i = 0
    /\ hold_header_row_idx = 0 - 1
    /\ hold_data = [columns |-> <<>>, rows |-> <<>>]
    /\ hold_df = <<>>
    /\ hold_exc = "none"

InitHold == PipelineIdle /\ RetIdle /\ SmaIdle /\ SeasIdle /\ HalfIdle /\ HoldInit /\ CacheIdle

\* ----------------------------------------------------------- the actions
\* line 14
HoldRead ==
    /\ hold_pc = "start"
    /\ hold_reads' = hold_reads + 1
    /\ hold_i' = 0
    /\ hold_pc' = "scan"
    /\ UNCHANGED <<hold_raw, hold_header_row_idx, hold_data, hold_df, hold_exc>>
    /\ UNCHANGED exceptHold

\* lines 18-22: one turn of the loop
HoldScan ==
    /\ hold_pc = "scan"
    /\ hold_i < Len(hold_raw)
    /\ IF HeaderMatch(hold_raw[hold_i + 1])
          THEN /\ hold_header_row_idx' = hold_i
               /\ hold_pc' = "found"
               /\ UNCHANGED hold_i
          ELSE /\ hold_i' = hold_i + 1
               /\ UNCHANGED <<hold_pc, hold_header_row_idx>>
    /\ UNCHANGED <<hold_raw, hold_reads, hold_data, hold_df, hold_exc>>
    /\ UNCHANGED exceptHold

\* mutant: an empty table is returned
HoldNoHeader_ReturnsEmpty ==
    /\ hold_pc = "scan"
    /\ hold_i = Len(hold_raw)
    /\ hold_pc' = "returned"
    /\ UNCHANGED <<hold_raw, hold_reads, hold_i, hold_header_row_idx, hold_data,
                   hold_df, hold_exc>>
    /\ UNCHANGED exceptHold

\* lines 18, 24-25: the loop ends with header_row_idx None
HoldNoHeader ==
    /\ hold_pc = "scan"
    /\ hold_i = Len(hold_raw)
    /\ hold_exc' = "ValueError"
    /\ hold_pc' = "raised"
    /\ UNCHANGED <<hold_raw, hold_reads, hold_i, hold_header_row_idx, hold_data,
                   hold_df>>
    /\ UNCHANGED exceptHold

\* lines 28-34
HoldExtract ==
    /\ hold_pc = "found"
    /\ hold_data' = DataOf(hold_raw, hold_header_row_idx)
    /\ IF HasColumn(hold_data'.columns, Ticker) /\ HasColumn(hold_data'.columns, Weight)
          THEN hold_pc' = "extracted" /\ UNCHANGED hold_exc
          ELSE hold_pc' = "raised" /\ hold_exc' = "ValueError"
    /\ UNCHANGED <<hold_raw, hold_reads, hold_i, hold_header_row_idx, hold_df>>
    /\ UNCHANGED exceptHold

\* lines 36-41
HoldClean ==
    /\ hold_pc = "extracted"
    /\ hold_df' = Clean(hold_data)
    /\ hold_pc' = "returned"
    /\ UNCHANGED <<hold_raw, hold_reads, hold_i, hold_header_row_idx, hold_data,
                   hold_exc>>
    /\ UNCHANGED exceptHold

NextHold ==
    \/ HoldRead
    \/ HoldScan
    \/ HoldNoHeader
    \/ HoldExtract
    \/ HoldClean

SpecHold == InitHold /\ [][NextHold]_vars

\* ------------------------------------------------------ reading the sheet
\* the rows of raw (from 0) that hold the cells "Ticker" and "Weight"
HeaderRows ==
    {k \in 0..(Len(hold_raw) - 1) :
        /\ \E c \in DOMAIN hold_raw[k + 1] : hold_raw[k + 1][c] = Str(Ticker)
        /\ \E c \in DOMAIN hold_raw[k + 1] : hold_raw[k + 1][c] = Str(Weight)}

HoldFinished == hold_pc \in {"returned", "raised"}

\* C23: with the first row that holds both "Ticker" and "Weight" at index i
\* of the sheet, the data rows are the rows after i and no row up to i gives a
\* row of the result.
C23_HeaderAtAnyOffset ==
    (HoldFinished /\ HeaderRows # {}) =>
        LET first == MinOf(HeaderRows)
        IN  /\ hold_pc = "returned"
            /\ hold_header_row_idx = first
            /\ {hold_data.rows[k].at : k \in DOMAIN hold_data.rows} =
                  (first + 1)..(Len(hold_raw) - 1)
            /\ \A k \in DOMAIN hold_df : hold_df[k].at > first

\* C24: with no row that holds both "Ticker" and "Weight", fetch_holdings
\* raises ValueError after its one read of the sheet and returns nothing.
C24_NoHeaderRaises ==
    /\ hold_reads <= 1
    /\ (HoldFinished /\ HeaderRows = {}) =>
          /\ hold_pc = "raised"
          /\ hold_exc = "ValueError"
          /\ hold_df = <<>>
          /\ hold_reads = 1

C24_Witness ==
    /\ hold_pc = "raised"
    /\ hold_header_row_idx = 0 - 1
    /\ Len(hold_raw) = MaxSheetRows
    /\ hold_i = Len(hold_raw)
    /\ hold_exc = "ValueError"

\* C25: every returned row has a symbol of upper-case letters only and a
\* number as its weight; a data row whose symbol, stripped of the blanks
\* around it, has another character, or whose weight is no number, gives no
\* returned row.
C25_AlphabeticAndNumeric ==
    hold_pc = "returned" =>
        /\ \A k \in DOMAIN hold_df :
              /\ hold_df[k].Ticker # <<>>
              /\ \A c \in DOMAIN hold_df[k].Ticker :
                    hold_df[k].Ticker[c] \in Range(UpperCase)
              /\ hold_df[k].Weight.kind = "num"
        /\ \A k \in DOMAIN hold_data.rows :
              LET cells  == hold_data.rows[k].cells
                  symbol == cells[ColumnOf(hold_data.columns, Ticker)]
                  weight == cells[ColumnOf(hold_data.columns, Weight)]
                  bad    == \/ symbol.kind = "nan"
                            \/ \E c \in DOMAIN StrStrip(symbol.s) :
                                  StrStrip(symbol.s)[c] \notin
                                      Range(UpperCase) \cup Range(LowerCase)
                            \/ StrStrip(symbol.s) = <<>>
                            \/ weight.kind = "nan"
                            \/ weight.kind = "str" /\ ~IsNumber(weight.s)
              IN  bad <=> \A j \in DOMAIN hold_df : hold_df[j].at # hold_data.rows[k].at

C25_Witness ==
    /\ hold_pc = "returned"
    /\ Len(hold_data.rows) = 2
    /\ hold_data.rows[1].cells[1] = Str(<<"B", "R", "K", ".", "B">>)
    /\ hold_data.rows[2].cells[1] = Str(<<" ", "m", "s", "f", "t", " ">>)
    /\ Len(hold_df) = 1
    /\ hold_df[1].Ticker = <<"M", "S", "F", "T">>
    /\ hold_df[1].Weight = Num(<<"1", "2", ".", "5">>)

\* =========================================================================
\* @st.cache_data(show_spinner=False) around download_batched,
\* src/utils/data_utils.py lines 102-115: the result of a call is kept under
\* the values of all its arguments
\* =========================================================================
MaxCacheCalls == 2       \* largest number of calls of download_batched

\* the arguments of a call, the other ones at their defaults
CacheArgs ==
    [tickers     : {<<1>>, <<1, 2>>, <<2, 1>>},
     period      : {"5d", "1y"},
     interval    : {"1d"},
     auto_adjust : {TRUE},
     max_retries : {RetryLimitMin, DefaultMaxRetries},
     sleep_base  : {DefaultSleepBase}]

\* the key of a call in the cache
CacheKey(args) == args

\* lines 117-156 for a list of at most 50 symbols, one batch: the results the
\* provider's behaviour can give and the number of calls of yf.download
Outcomes(args) ==
    LET syms  == ListOfSet(args.tickers, FALSE)
        tries == {0, args.max_retries}
    IN  {[result |-> [combined |-> syms, failed_tickers |-> <<>>],
          calls |-> r + 1] : r \in tries}
        \cup
        {[result |-> [combined |-> <<>>, failed_tickers |-> syms],
          calls |-> r + 1] : r \in tries}
        \cup
        {[result |-> [combined |-> <<>>, failed_tickers |-> <<>>],
          calls |-> args.max_retries + 1]}

\* mutant: a result with failed symbols is not kept
Stored_UnlessFailed(store, key, result) ==
    IF result.failed_tickers # <<>> THEN store ELSE store @@ (key :> result)

\* the cache after a call that ran the function
Stored(store, key, result) == store @@ (key :> result)

InitCache == PipelineIdle /\ EnginesIdle

\* ----------------------------------------------------------- the actions
\* a call whose arguments are in the cache: the kept result, the function is
\* not run
CacheHit ==
    /\ Len(cache_log) < MaxCacheCalls
    /\ \E args \in CacheArgs :
          /\ CacheKey(args) \in DOMAIN cache_store
          /\ cache_log' = Append(cache_log,
                [args |-> args, result |-> cache_store[CacheKey(args)], calls |-> 0])
    /\ UNCHANGED cache_store
    /\ UNCHANGED exceptCache

\* a call whose arguments are not in the cache: the function is run and its
\* result kept
CacheMiss ==
    /\ Len(cache_log) < MaxCacheCalls
    /\ \E args \in CacheArgs :
          /\ CacheKey(args) \notin DOMAIN cache_store
          /\ \E out \in Outcomes(args) :
                /\ cache_store' = Stored(cache_store, CacheKey(args), out.result)
                /\ cache_log' = Append(cache_log,
                      [args |-> args, result |-> out.result, calls |-> out.calls])
    /\ UNCHANGED exceptCache

NextCache ==
    \/ CacheHit
    \/ CacheMiss

SpecCache == InitCache /\ [][NextCache]_vars

\* C26 as stated: a call after one with the same set of symbols, date range,
\* interval and adjustment flag returns the result of the first and makes no
\* provider call.
C26_MemoizedOnFourArguments ==
    \A j, k \in DOMAIN cache_log :
        (/\ j < k
         /\ Range(cache_log[j].args.tickers) = Range(cache_log[k].args.tickers)
         /\ cache_log[j].args.period = cache_log[k].args.period
         /\ cache_log[j].args.interval = cache_log[k].args.interval
         /\ cache_log[j].args.auto_adjust = cache_log[k].args.auto_adjust)
            => /\ cache_log[k].calls = 0
               /\ cache_log[k].result = cache_log[j].result

\* C26, amended: a call after one with the same arguments (the same list of
\* symbols, date range, interval, adjustment flag, max_retries and sleep_base)
\* returns the result of the first and makes no provider call, also when that
\* result has failed symbols.
C26_MemoizedOnAllArguments ==
    \A j, k \in DOMAIN cache_log :
        (j < k /\ cache_log[j].args = cache_log[k].args)
            => /\ cache_log[k].calls = 0
               /\ cache_log[k].result = cache_log[j].result

C26_Witness ==
    /\ Len(cache_log) = 2
    /\ cache_log[1].args = cache_log[2].args
    /\ cache_log[1].result.failed_tickers # <<>>
    /\ cache_log[1].calls > 1
    /\ cache_log[2].calls = 0
    /\ cache_log[2].result = cache_log[1].result

\* =========================================================================
\* download_batched, lines 122-156: the order of the delays and attempts, the
\* retry budget of a batch, termination
\* =========================================================================

\* C27: every backoff delay lies between two attempts of the same batch: what
\* follows a backoff delay is another attempt of that batch, never the
\* cooldown, and no backoff delay is the last event of a call that returned.
C27_BackoffBetweenAttempts ==
    \A j \in DOMAIN io :
        io[j].ev = "backoff" =>
            /\ j - 1 \in Events("call", io[j].at)
            /\ (j + 1 \in DOMAIN io) =>
                  /\ io[j + 1].ev = "call"
                  /\ io[j + 1].at = io[j].at
            /\ returned => j + 1 \in DOMAIN io

\* the provider calls made so far
ProviderCalls == {k \in DOMAIN io : io[k].ev = "call"}

\* the calls are at most ceil(n/50) * (max_retries + 1), and the batches come
\* one after another: no attempt of a batch follows an event of a later one
C28_BoundedCalls ==
    /\ Cardinality(ProviderCalls)
          <= Ceil(Cardinality(Requested), BatchSize) * (max_retries + 1)
    /\ \A j, k \in DOMAIN io : j < k => io[j].at <= io[k].at

\* the statements of download_batched run one after another in one thread:
\* a statement that can run does run
SpecTerminates == Spec /\ WF_vars(Next)

\* C28: download_batched returns, for every list of symbols and every
\* max_retries >= 0 and whatever the provider answers, after at most
\* ceil(n/50) * (max_retries + 1) provider calls, the batches one after
\* another.
C28_Terminates == []C28_BoundedCalls /\ <>returned

C28_Witness ==
    /\ returned
    /\ max_retries > 0
    /\ Cardinality(BatchStarts) = 2
    /\ Cardinality(ProviderCalls) = 2 * (max_retries + 1)

\* C29: the retry count and the backoff delays are those of the batch alone:
\* in the while loop retry_count is the number of attempts of the current
\* batch that raised, whatever happened in earlier batches; the first backoff
\* delay of every batch is sleep_base seconds; and a batch given up after
\* batches that raised still had max_retries + 1 attempts.
C29_BudgetPerBatch ==
    /\ pc = "while" => retry_count = Cardinality(Raises(i))
    /\ \A b \in Ats :
          LET delays == Events("backoff", b)
          IN  /\ \A j \in delays :
                    (\A j2 \in delays : j <= j2) => io[j].secs = sleep_base
              /\ \A j \in delays :
                    io[j].secs = sleep_base * 2 ^ (Cardinality({j2 \in delays : j2 < j}))
              /\ Exhausted(b) => Cardinality(Events("call", b)) = max_retries + 1

C29_Witness ==
    /\ returned
    /\ max_retries > 0
    /\ \E b1, b2 \in BatchStarts :
          /\ b1 < b2
          /\ Exhausted(b1)
          /\ Cardinality(Raises(b1)) = max_retries + 1
          /\ Exhausted(b2)
          /\ \E j \in Events("backoff", b2) : io[j].secs = sleep_base

\* =========================================================================
\* calculate_sma_percentages, lines 84-94, against one rolling pass
\* =========================================================================

\* one pass of rolling(K) over a whole table: the running sums of every
\* column are taken once, the sum of the K closes ending at row k is the
\* difference of two of them, and the percentages of row k are read at row k
RollingPass(t) ==
    LET n      == Len(t.index)
        cols   == Range(t.cols)
        prefix == [c \in cols |-> [k \in 0..n |-> SumRange(t.val[c], 1, k)]]
        mean_defined(k, K) == k >= K
        above(c, k, K) ==
            /\ mean_defined(k, K)
            /\ K * t.val[c][k] > prefix[c][k] - prefix[c][k - K]
    IN  [k \in 1..n |->
            [date |-> t.index[k],
             pct  |-> [K \in Horizons |->
                         [above |-> Cardinality({c \in cols : above(c, k, K)}),
                          of    |-> Cardinality(cols)]]]]

\* C30: the table returned by calculate_sma_percentages, computed date by
\* date on the rows up to the date, is at every date the table of one rolling
\* pass over the restricted price_data, read at that date.
C30_SameAsOneRollingPass ==
    sma_pc = "done" => sma_data = RollingPass(sma_price_data)

C30_Witness ==
    /\ sma_pc = "done"
    /\ Len(sma_price_data.cols) = 2
    /\ \E k \in DOMAIN sma_data :
          /\ k >= 200
          /\ k < Len(sma_data)
          /\ sma_data[k].pct[200].above = 1
          /\ sma_data[k].pct[20].above = 1
          /\ sma_data[k] = RollingPass(sma_price_data)[k]
    /\ \E k \in DOMAIN sma_data : sma_data[k].pct[20].above = 2
    /\ \E k \in DOMAIN sma_data : sma_data[k].pct[20].above = 0

====
